---------------------------- MODULE Spec2Model ----------------------------
(***************************************************************************)
(* Model of the clopus-watcher run ingestion pipeline.                     *)
(*                                                                         *)
(*   dashboard/db/postgres.go : CreateRun, CompleteRun, ImportJSONResults, *)
(*                              GetNamespaces and GetLastRunTime against   *)
(*                              the clopus_watcher_runs table              *)
(*   watcher/entrypoint.sh    : the report extractor (SpecWatch) and the   *)
(*                              whole watch cycle, from the run id to the  *)
(*                              artifact file, for two cycles that share   *)
(*                              a results directory (SpecCycle)            *)
(*                                                                         *)
(* Every SQL statement is one atomic step (autocommit, no transaction is   *)
(* opened anywhere in postgres.go).  The table schema is created by        *)
(* migrations that are not part of the sources; the two facts used from    *)
(* it (id is unique, id defaults to a sequence) are stated separately in   *)
(* UniqueViolation and NextVal.                                            *)
(***************************************************************************)
EXTENDS Integers, Sequences, FiniteSets, TLC

(***************************************************************************)
(* Bounds of the model.                                                    *)
(***************************************************************************)
MaxFiles == 2       \* number of run_*.json files in the results directory
NumImporters == 2   \* calls of ImportJSONResults in one behaviour
MaxOps == 1         \* CreateRun / CompleteRun calls in one behaviour
MaxTime == 2        \* the clock runs over 1..MaxTime
MaxLines == 4       \* lines of agent output in the transcript
MaxFaults == 1      \* statements the store fails to answer in one behaviour

(***************************************************************************)
(* Values.  A timestamp is a positive number, the empty string of the Go   *)
(* code (and SQL NULL read through COALESCE(..., '')) is NoTime, and       *)
(* BadTime stands for a string that PostgreSQL does not accept as a        *)
(* timestamp.                                                              *)
(***************************************************************************)
NoTime == 0
BadTime == -1

Importers == 1..NumImporters
\* Ids of artifacts and targets of CompleteRun.
Ids == {1, 2}

Terminal == {"ok", "fixed", "failed", "issues_found"}
StatusEnum == Terminal \cup {"running"}

\* The anonymous struct ImportJSONResults decodes an artifact into.  Report
\* is one line of text and Log a text (lines of tokens, as in entrypoint.sh
\* below).
Doc(id, st, en, status) ==
    [id |-> id, started_at |-> st, ended_at |-> en, namespace |-> "prod",
     mode |-> "autonomous", status |-> status, pod_count |-> 12,
     error_count |-> 3, fix_count |-> 2, report |-> <<"report">>,
     log |-> << <<"log">> >>]

\* head -c 100000 "$LOG_FILE" and head -c 50000 of entrypoint.sh, in the
\* model's unit: a token or a newline counts as one byte, and the caps are
\* scaled to the short texts of the model, the first twice the second as in
\* the script.
LogFileCap == 40
LogCap == 20

\* A log of one line that is one byte longer than the cap.
LongLog == << [k \in 1..(LogCap + 1) |-> "x"] >>

Unreadable == [kind |-> "unreadable"]
BadJSON == [kind |-> "badjson"]
JSONFile(d) == [kind |-> "json", doc |-> d]

\* What a file matched by run_*.json may contain: nothing readable, no
\* JSON, a complete artifact (id 1), an artifact without timestamps whose
\* status is running (id 2), an artifact whose started_at is not a
\* timestamp (id 1), an artifact whose status is outside the enum and
\* whose log is longer than the cap of entrypoint.sh (id 1).
FilePool ==
    { Unreadable, BadJSON,
      JSONFile(Doc(1, 1, 1, "fixed")),
      JSONFile(Doc(2, NoTime, NoTime, "running")),
      JSONFile(Doc(1, BadTime, 1, "ok")),
      JSONFile([Doc(1, 1, 1, "bogus") EXCEPT !.log = LongLog]) }

SeqsUpTo(S, n) == UNION { [1..k -> S] : k \in 0..n }

\* Arguments the callers pass to CreateRun and CompleteRun.
Namespaces == {"prod", "dev"}
CompleteStatuses == {"ok", "issues_found", "running", "bogus"}

VARIABLES
    files,      \* result of filepath.Glob: the artifact files, in glob order
    runs,       \* table clopus_watcher_runs, rows in insertion order
    seq,        \* next value of the sequence behind the id column
    now,        \* the clock read by NOW() and time.Now()
    pc,         \* pc[i]: where the i-th call of ImportJSONResults is
    idx,        \* idx[i]: index of the file importer i is processing
    imported,   \* imported[i]: rows importer i has inserted
    skipped,    \* skipped[i]: files importer i has skipped
    ops,        \* CreateRun / CompleteRun calls so far
    faults,     \* statements the store has failed to answer so far
    transcript, \* $OUTPUT_FILE: the agent's output, a sequence of lines
    wpc,        \* where the watch cycle is in entrypoint.sh
    REPORT,     \* shell variable REPORT (one line of text)
    POD_COUNT,  \* shell variables POD_COUNT, ERROR_COUNT, FIX_COUNT, STATUS:
    ERROR_COUNT,\*   each a text, i.e. a sequence of lines
    FIX_COUNT,
    STATUS,
    artifact,   \* content of run_${RUN_ID}.json, or NoArtifact
    cpc,        \* cpc[c]: where the c-th run of entrypoint.sh is
    env,        \* env[c]: its TARGET_NAMESPACE and WATCHER_MODE
    RUN_ID,     \* RUN_ID[c]: its shell variable RUN_ID
    agent,      \* agent[c]: output and exit status of its claude process
    shell,      \* shell[c]: its REPORT, POD_COUNT, ERROR_COUNT, FIX_COUNT, STATUS
    promptFiles,\* the master-prompt-*.md files that exist in $SCRIPT_DIR
    results,    \* results[id]: $RESULTS_DIR/run_<id>.json
    logFiles,   \* logFiles[id]: $RESULTS_DIR/run_<id>.log
    outputFiles \* outputFiles[id]: /tmp/claude_output_<id>.txt

cvars == <<cpc, env, RUN_ID, agent, shell, promptFiles, results, logFiles, outputFiles>>
wvars == <<transcript, wpc, REPORT, POD_COUNT, ERROR_COUNT, FIX_COUNT, STATUS, artifact>>
vars == <<files, runs, seq, now, pc, idx, imported, skipped, ops, faults,
          transcript, wpc, REPORT, POD_COUNT, ERROR_COUNT, FIX_COUNT, STATUS, artifact,
          cpc, env, RUN_ID, agent, shell, promptFiles, results, logFiles, outputFiles>>

(***************************************************************************)
(* The table.                                                              *)
(***************************************************************************)
RowIds(tbl) == { tbl[k].id : k \in DOMAIN tbl }
RowsWithId(tbl, id) == { k \in DOMAIN tbl : tbl[k].id = id }

\* Schema: runs.id is unique.
UniqueViolation(tbl, id) == id \in RowIds(tbl)

\* Schema: an INSERT that names no id takes the next value of a sequence.
NextVal(s) == s

\* A text parameter bound to a timestamp column must parse as a timestamp.
TypeError(row) == row.started_at = BadTime \/ row.ended_at = BadTime

\* INSERT INTO clopus_watcher_runs (started_at, namespace, mode, status)
\* VALUES (NOW(), $1, $2, 'running') RETURNING id
CreateRow(id, ns, mode, t) ==
    [id |-> id, started_at |-> t, ended_at |-> NoTime, namespace |-> ns,
     mode |-> mode, status |-> "running", pod_count |-> 0, error_count |-> 0,
     fix_count |-> 0, report |-> <<>>, log |-> <<>>]

\* The UPDATE that sets the status and ended_at and leaves the counts, the
\* report and the log to a second statement.
CompleteStmtStatusFirst(tbl, id, status, pods, errs, fixes, report, log, t) ==
    [k \in DOMAIN tbl |->
        IF tbl[k].id = id
        THEN [tbl[k] EXCEPT !.ended_at = t, !.status = status]
        ELSE tbl[k]]

\* UPDATE clopus_watcher_runs SET ended_at = NOW(), status = $1, ...
\* WHERE id = $7
CompleteStmt(tbl, id, status, pods, errs, fixes, report, log, t) ==
    [k \in DOMAIN tbl |->
        IF tbl[k].id = id
        THEN [tbl[k] EXCEPT !.ended_at = t, !.status = status,
                            !.pod_count = pods, !.error_count = errs,
                            !.fix_count = fixes, !.report = report,
                            !.log = log]
        ELSE tbl[k]]

\* INSERT ... ON CONFLICT (id) DO UPDATE: what the statement of
\* ImportJSONResults would do were it written as an upsert.
ImportStmtUpsert(tbl, row) ==
    IF TypeError(row) THEN [err |-> TRUE, tbl |-> tbl]
    ELSE IF UniqueViolation(tbl, row.id)
         THEN [err |-> FALSE,
               tbl |-> [k \in DOMAIN tbl |->
                          IF tbl[k].id = row.id THEN row ELSE tbl[k]]]
         ELSE [err |-> FALSE, tbl |-> Append(tbl, row)]

\* The INSERT without the id column: the store numbers the row itself.
ImportStmtOwnId(tbl, row) ==
    LET fresh == 1 + Cardinality(RowIds(tbl))
    IN IF TypeError(row) \/ UniqueViolation(tbl, fresh)
       THEN [err |-> TRUE, tbl |-> tbl]
       ELSE [err |-> FALSE, tbl |-> Append(tbl, [row EXCEPT !.id = fresh])]

\* INSERT INTO clopus_watcher_runs (id, started_at, ended_at, ...) VALUES (...)
ImportStmt(tbl, row) ==
    IF TypeError(row) \/ UniqueViolation(tbl, row.id)
    THEN [err |-> TRUE, tbl |-> tbl]
    ELSE [err |-> FALSE, tbl |-> Append(tbl, row)]

\* The query without its WHERE clause: is there any row at all.
ExistsAnyRow(tbl, id) == tbl # <<>>

\* SELECT EXISTS(SELECT 1 FROM clopus_watcher_runs WHERE id = $1)
ExistsQuery(tbl, id) == RowsWithId(tbl, id) # {}

(***************************************************************************)
(* The queries of postgres.go.  Each is one SELECT, evaluated on the table *)
(* as it is at that moment.                                                *)
(***************************************************************************)
\* ORDER BY namespace, for the namespaces of the model.
NamespaceOrder == <<"dev", "prod">>

\* COUNT(*) of a group.
RECURSIVE CountStar(_, _)
CountStar(tbl, ns) ==
    IF tbl = <<>> THEN 0
    ELSE (IF Head(tbl).namespace = ns THEN 1 ELSE 0) + CountStar(Tail(tbl), ns)

\* SUM(CASE WHEN status = ... THEN 1 ELSE 0 END) of a group.
RECURSIVE SumCase(_, _, _)
SumCase(tbl, ns, statuses) ==
    IF tbl = <<>> THEN 0
    ELSE (IF Head(tbl).namespace = ns /\ Head(tbl).status \in statuses
          THEN 1 ELSE 0) + SumCase(Tail(tbl), ns, statuses)

\* A failed_count that leaves issues_found out.
FailedOnly == {"failed"}

\* status = 'failed' OR status = 'issues_found'
FailedOrIssues == {"failed", "issues_found"}

\* GetNamespaces: SELECT namespace, COUNT(*), SUM(...), SUM(...), SUM(...)
\* FROM clopus_watcher_runs GROUP BY namespace ORDER BY namespace
GetNamespaces(tbl) ==
    LET groups == SelectSeq(NamespaceOrder,
                            LAMBDA ns : \E k \in DOMAIN tbl : tbl[k].namespace = ns)
    IN [g \in DOMAIN groups |->
          [Namespace |-> groups[g],
           RunCount |-> CountStar(tbl, groups[g]),
           OkCount |-> SumCase(tbl, groups[g], {"ok"}),
           FixedCount |-> SumCase(tbl, groups[g], {"fixed"}),
           FailedCount |-> SumCase(tbl, groups[g], FailedOrIssues)]]

\* A WHERE clause that forgets the status.
WhereNamespace(row, ns) == row.namespace = ns

\* WHERE namespace = $1 AND status != 'running'
WhereCompleted(row, ns) == row.namespace = ns /\ row.status # "running"

\* MAX(ended_at) over the selected rows; a NULL ended_at is not counted and
\* the MAX of no value is NULL.
RECURSIVE MaxEndedAt(_, _)
MaxEndedAt(tbl, ns) ==
    IF tbl = <<>> THEN NoTime
    ELSE LET m == MaxEndedAt(Tail(tbl), ns)
             h == Head(tbl)
         IN IF WhereCompleted(h, ns) /\ h.ended_at # NoTime /\ h.ended_at > m
            THEN h.ended_at ELSE m

\* GetLastRunTime: SELECT COALESCE(MAX(ended_at)::text, '') ...
GetLastRunTime(tbl, ns) == MaxEndedAt(tbl, ns)

(***************************************************************************)
(* ImportJSONResults, one pass.                                            *)
(***************************************************************************)
\* os.ReadFile succeeded and json.Unmarshal succeeded.
Decodes(f) == f.kind = "json"

\* startedAt / endedAt default to time.Now() when the artifact has "".
DefaultTime(s, t) == IF s = NoTime THEN t ELSE s

\* A row bound with namespace and mode in each other's place.
ImportRowSwapped(d, t) ==
    [d EXCEPT !.started_at = DefaultTime(d.started_at, t),
              !.ended_at = DefaultTime(d.ended_at, t),
              !.namespace = d.mode,
              !.mode = d.namespace]

\* The row bound to the INSERT's parameters.
ImportRow(d, t) ==
    [d EXCEPT !.started_at = DefaultTime(d.started_at, t),
              !.ended_at = DefaultTime(d.ended_at, t)]

\* `continue`: the for loop moves to the next file, and the function
\* returns nil after the last one.
Advance(k) ==
    [pc |-> IF k + 1 > Len(files) THEN "done" ELSE "read", idx |-> k + 1]

\* A file that cannot be read or decoded ends the pass (return err).
OnDecodeErrorAbort(k) == [pc |-> "done", idx |-> k]

\* if err != nil { continue // Skip files that can't be read }
\* if err := json.Unmarshal(...); err != nil { continue }
OnDecodeError(k) == Advance(k)

\* A failed insert that ends the pass (return err) instead of skipping.
OnInsertErrorAbort(k) == [pc |-> "done", idx |-> k]

\* if err != nil { continue // Skip files that fail to import }
OnInsertError(k) == Advance(k)

\* if err != nil || exists { continue }
SkipExisting(err, exists) == err \/ exists

\* ImportJSONResults as one computation: the loop over the files in the
\* order given, every statement issued at time t and answered by the store.
RECURSIVE ImportJSONResults(_, _, _)
ImportJSONResults(fs, tbl, t) ==
    IF fs = <<>> THEN tbl
    ELSE LET f == Head(fs)
         IN IF ~Decodes(f)
            THEN ImportJSONResults(Tail(fs), tbl, t)
            ELSE IF SkipExisting(FALSE, ExistsQuery(tbl, f.doc.id))
                 THEN ImportJSONResults(Tail(fs), tbl, t)
                 ELSE ImportJSONResults(Tail(fs),
                          ImportStmt(tbl, ImportRow(f.doc, t)).tbl, t)

\* The orders in which filepath.Glob may hand over the files fs.
Enumerations(fs) ==
    { [k \in DOMAIN fs |-> fs[p[k]]] : p \in Permutations(DOMAIN fs) }

NoArtifact == [written |-> FALSE]

(***************************************************************************)
(* entrypoint.sh: text.  A line is a sequence of tokens; a token is one    *)
(* character (quote, colon, space, comma, a digit) or a word that contains *)
(* none of these (a marker, a field name, a value).  A text is a sequence  *)
(* of lines.                                                               *)
(***************************************************************************)
QUOTE == "\""
START == "===REPORT_START==="
END == "===REPORT_END==="
Spaces == {" "}
Digits == {"0", "1", "2", "3", "4", "5", "6", "7", "8", "9"}

HasToken(line, t) == \E k \in DOMAIN line : line[k] = t

\* The bracket expressions of the patterns: [[:space:]], [0-9], [^"].
InClass(t, class) ==
    CASE class = "space" -> t \in Spaces
      [] class = "digit" -> t \in Digits
      [] class = "notquote" -> t # QUOTE

\* One past the end of the longest run of tokens of a class that starts at
\* p (a greedy `*`).
SpanEnd(r, p, class) ==
    LET qs == { q \in p..(Len(r) + 1) : \A j \in p..(q - 1) : InClass(r[j], class) }
    IN CHOOSE q \in qs : \A q2 \in qs : q2 <= q

IsDigit(t) == InClass(t, "digit")

\* "key"[[:space:]]*:[[:space:]]* matched at p: one past its end, 0 if it
\* does not match there.
KeyColonEnd(r, p, key) ==
    IF p + 2 <= Len(r) /\ r[p] = QUOTE /\ r[p + 1] = key /\ r[p + 2] = QUOTE
    THEN LET a == SpanEnd(r, p + 3, "space")
         IN IF a <= Len(r) /\ r[a] = ":" THEN SpanEnd(r, a + 1, "space") ELSE 0
    ELSE 0

\* '"<key>"[[:space:]]*:[[:space:]]*[0-9]*' matched at p.
CountMatchEnd(r, p, key) ==
    LET b == KeyColonEnd(r, p, key)
    IN IF b = 0 THEN 0 ELSE SpanEnd(r, b, "digit")

\* '"status"[[:space:]]*:[[:space:]]*"[^"]*"' matched at p.
StatusMatchEnd(r, p) ==
    LET b == KeyColonEnd(r, p, "status")
    IN IF b = 0 \/ b > Len(r) THEN 0
       ELSE IF r[b] # QUOTE THEN 0
       ELSE LET c == SpanEnd(r, b + 1, "notquote")
            IN IF c <= Len(r) THEN c + 1 ELSE 0

MatchEnd(r, p, key) ==
    IF key = "status" THEN StatusMatchEnd(r, p) ELSE CountMatchEnd(r, p, key)

\* grep -o <pattern of key> on one line: every non-overlapping match,
\* leftmost first, each on a line of its own.
RECURSIVE GrepO(_, _, _)
GrepO(r, p, key) ==
    IF p > Len(r) THEN <<>>
    ELSE LET e == MatchEnd(r, p, key)
         IN IF e = 0 THEN GrepO(r, p + 1, key)
            ELSE <<SubSeq(r, p, e - 1)>> \o GrepO(r, e, key)

\* grep -o '[0-9]*$' on a text: the digits a line ends with, for the lines
\* that end with digits.  Every line matches (possibly the empty string), so
\* the exit status is 1 only when there is no input line.
TrailingDigits(line) ==
    LET ss == { q \in 1..(Len(line) + 1) : \A j \in q..Len(line) : IsDigit(line[j]) }
        q0 == CHOOSE q \in ss : \A q2 \in ss : q <= q2
    IN SubSeq(line, q0, Len(line))

RECURSIVE MapTrailingDigits(_)
MapTrailingDigits(text) ==
    IF text = <<>> THEN <<>>
    ELSE LET d == TrailingDigits(Head(text))
         IN (IF d = <<>> THEN <<>> ELSE <<d>>) \o MapTrailingDigits(Tail(text))

GrepDigitsAtEnd(text) ==
    [out |-> MapTrailingDigits(text), rc |-> IF text = <<>> THEN 1 ELSE 0]

\* sed 's/.*"\([^"]*\)"$/\1/' on one line: a line that ends with a quote
\* and has an earlier quote becomes what stands between its last two quotes.
SedLastQuoted(line) ==
    LET qs == { k \in 1..(Len(line) - 1) : line[k] = QUOTE }
    IN IF line # <<>> /\ line[Len(line)] = QUOTE /\ qs # {}
       THEN LET q1 == CHOOSE k \in qs : \A k2 \in qs : k2 <= k
            IN SubSeq(line, q1 + 1, Len(line) - 1)
       ELSE line

\* $(...) removes the newlines its output ends with.
RECURSIVE CmdSubst(_)
CmdSubst(text) ==
    IF text = <<>> THEN <<>>
    ELSE IF text[Len(text)] = <<>> THEN CmdSubst(SubSeq(text, 1, Len(text) - 1))
    ELSE text

\* grep -q "===REPORT_START===" "$OUTPUT_FILE"
GrepStart(text) == \E k \in DOMAIN text : HasToken(text[k], START)

\* sed -n '/===REPORT_START===/,/===REPORT_END===/p': a range opens at a
\* line with the start marker and closes at the first later line with the
\* end marker, or at the end of the input.
RECURSIVE SedRange(_, _, _)
SedRange(text, k, inRange) ==
    IF k > Len(text) THEN <<>>
    ELSE IF inRange
         THEN <<text[k]>> \o SedRange(text, k + 1, ~HasToken(text[k], END))
         ELSE IF HasToken(text[k], START)
              THEN <<text[k]>> \o SedRange(text, k + 1, TRUE)
              ELSE SedRange(text, k + 1, FALSE)

\* grep -v "===REPORT": both markers contain the pattern.
GrepVMarker(text) ==
    SelectSeq(text, LAMBDA l : ~HasToken(l, START) /\ ~HasToken(l, END))

\* tr -d '\n'
RECURSIVE TrDeleteNewlines(_)
TrDeleteNewlines(text) ==
    IF text = <<>> THEN <<>> ELSE Head(text) \o TrDeleteNewlines(Tail(text))

\* tr -s ' '
RECURSIVE TrSqueezeSpaces(_)
TrSqueezeSpaces(line) ==
    IF Len(line) <= 1 THEN line
    ELSE IF line[1] = " " /\ line[2] = " " THEN TrSqueezeSpaces(Tail(line))
    ELSE <<line[1]>> \o TrSqueezeSpaces(Tail(line))

\* REPORT=$(sed -n ... "$OUTPUT_FILE" | grep -v ... | tr -d '\n' | tr -s ' ')
ExtractReport(text) ==
    TrSqueezeSpaces(TrDeleteNewlines(GrepVMarker(SedRange(text, 1, FALSE))))

\* PARSED=$(echo "$REPORT" | grep -o '"<key>"...[0-9]*' | grep -o '[0-9]*$')
\* rc is the exit status of the pipeline, that of its last command.
ParseCount(report, key) ==
    LET g == GrepDigitsAtEnd(GrepO(report, 1, key))
    IN [out |-> CmdSubst(g.out), rc |-> g.rc]

\* PARSED=$(echo "$REPORT" | grep -o '"status"..."[^"]*"' | sed 's/.../\1/')
\* sed exits 0 whatever its input.
RECURSIVE MapSedLastQuoted(_)
MapSedLastQuoted(text) ==
    IF text = <<>> THEN <<>>
    ELSE <<SedLastQuoted(Head(text))>> \o MapSedLastQuoted(Tail(text))

ParseStatusValue(report) ==
    [out |-> CmdSubst(MapSedLastQuoted(GrepO(report, 1, "status"))), rc |-> 0]

Word(w) == << <<w>> >>

\* The guard that is true whatever REPORT holds.
ReportNonEmptyAlways(report) == TRUE

\* [ -n "$REPORT" ]
ReportNonEmpty(report) == report # <<>>

\* case "$STATUS" in ok|fixed|failed|issues_found|running) ;; *) STATUS="ok"
ValidStatus(status) ==
    IF \E w \in StatusEnum : status = Word(w) THEN status ELSE Word("ok")

(***************************************************************************)
(* The transcripts the model considers.                                    *)
(***************************************************************************)
Fld(key) == <<QUOTE, key, QUOTE, ":">>
Str(v) == <<QUOTE, v, QUOTE>>

LinePool ==
    { <<START>>,
      <<END>>,
      \* "status":"failed","pod_count":5,"error_count":3,"fix_count":2
      Fld("status") \o Str("failed") \o <<",">> \o Fld("pod_count") \o <<"5", ",">>
          \o Fld("error_count") \o <<"3", ",">> \o Fld("fix_count") \o <<"2">>,
      \* "status": "bogus","pod_count":5
      Fld("status") \o <<" ">> \o Str("bogus") \o <<",">> \o Fld("pod_count") \o <<"5">>,
      \* "pod_count" :  17
      <<QUOTE, "pod_count", QUOTE, " ", ":", " ", " ", "1", "7">>,
      \* "pod_count":"many"
      Fld("pod_count") \o Str("many"),
      \* "status":"fixed"
      Fld("status") \o Str("fixed"),
      \* "status":""
      Fld("status") \o <<QUOTE, QUOTE>>,
      \* 4  pods checked
      <<"4", " ", " ", "pods", " ", "checked">> }

(***************************************************************************)
(* entrypoint.sh, the whole script: the files and values of a watch cycle. *)
(* A cycle is one run of the script, from GENERATE RUN ID on (the          *)
(* authentication setup before it touches nothing the cycles share).       *)
(***************************************************************************)
\* Two runs of the script, which may overlap.
Cycles == {1, 2}

\* RUN_ID=$(date +%s): a run id is a value of the clock.
RunIds == 1..MaxTime

BACKSLASH == "\\"

NoFile == [exists |-> FALSE, text |-> <<>>]
File(text) == [exists |-> TRUE, text |-> text]

\* PROMPT_FILE="$SCRIPT_DIR/master-prompt-report.md" for the mode report,
\* "$SCRIPT_DIR/master-prompt-autonomous.md" for every other mode.
PromptFiles == {"master-prompt-report.md", "master-prompt-autonomous.md"}
PromptFileOf(mode) ==
    IF mode = "report" THEN "master-prompt-report.md"
    ELSE "master-prompt-autonomous.md"

\* TARGET_NAMESPACE and WATCHER_MODE of a cycle.
Environments ==
    { [ns |-> "prod", mode |-> "autonomous"], [ns |-> "dev", mode |-> "report"] }
NoEnv == [ns |-> "", mode |-> ""]

\* The claude process has not been started.
NotRun == [out |-> <<>>, rc |-> -1]

NoShell ==
    [REPORT |-> <<>>, POD_COUNT |-> <<>>, ERROR_COUNT |-> <<>>,
     FIX_COUNT |-> <<>>, STATUS |-> <<>>]

\* {"status":"<status>","pod_count":5,"error_count":3,"fix_count":2
ReportLine(status) ==
    Fld("status") \o Str(status) \o <<",">> \o Fld("pod_count") \o <<"5", ",">>
        \o Fld("error_count") \o <<"3", ",">> \o Fld("fix_count") \o <<"2">>

\* What the claude process may do: die at once with no output; end well
\* without a report block; report failed, or running, with all counts;
\* report a status and no counts.
AgentRuns ==
    { [out |-> <<>>, rc |-> 1],
      [out |-> << <<"4", " ", " ", "pods", " ", "checked">> >>, rc |-> 0],
      [out |-> << <<START>>, ReportLine("failed"), <<END>> >>, rc |-> 0],
      [out |-> << <<START>>, ReportLine("running"), <<END>> >>, rc |-> 0],
      [out |-> << <<START>>, Fld("status") \o Str("fixed"), <<END>> >>, rc |-> 0] }

\* head -c n: the first n bytes of a text.  A line shorter than what is
\* left is kept with its newline.
RECURSIVE HeadC(_, _)
HeadC(text, n) ==
    IF text = <<>> \/ n <= 0 THEN <<>>
    ELSE IF Len(Head(text)) >= n THEN <<SubSeq(Head(text), 1, n)>>
    ELSE <<Head(text)>> \o HeadC(Tail(text), n - Len(Head(text)) - 1)

\* The bytes of a text held in a variable: its tokens and the newlines
\* between its lines.
RECURSIVE TextBytes(_)
TextBytes(text) ==
    IF text = <<>> THEN 0
    ELSE Len(Head(text)) + (IF Len(text) > 1 THEN 1 ELSE 0) + TextBytes(Tail(text))

\* sed 's/"/\\"/g' on one line, and on a text.
RECURSIVE EscapeQuotes(_)
EscapeQuotes(line) ==
    IF line = <<>> THEN <<>>
    ELSE (IF Head(line) = QUOTE THEN <<BACKSLASH, QUOTE>> ELSE <<Head(line)>>)
             \o EscapeQuotes(Tail(line))

RECURSIVE MapEscapeQuotes(_)
MapEscapeQuotes(text) ==
    IF text = <<>> THEN <<>>
    ELSE <<EscapeQuotes(Head(text))>> \o MapEscapeQuotes(Tail(text))

\* echo "=== Run #$RUN_ID started at $(date -Iseconds) ===" > "$LOG_FILE"
\* echo "Mode: $WATCHER_MODE | Namespace: $TARGET_NAMESPACE" >> "$LOG_FILE"
\* echo "----------------------------------------" >> "$LOG_FILE"
LogHeader(id, e, t) ==
    << <<"Run", " ", ToString(id), " ", "started", " ", ToString(t)>>,
       <<e.mode, " ", e.ns>>,
       <<"----">> >>

\* echo "=== Run #$RUN_ID Complete ===" | tee -a "$LOG_FILE"
LogComplete(id) == << <<"Run", " ", ToString(id), " ", "Complete">> >>

\* claude ... 2>&1 | tee -a "$LOG_FILE" | tee "$OUTPUT_FILE": the exit
\* status of a pipeline is that of its last command, which is tee.
RunClaudeStatus(rc) == 0

\* The artifact of the fast-fail path (the here-document of lines 69-83).
FastFailJson(id, e, t) ==
    [written |-> TRUE, id |-> id, started_at |-> t, ended_at |-> t,
     namespace |-> e.ns, mode |-> e.mode, status |-> Word("failed"),
     pod_count |-> Word("0"), error_count |-> Word("0"), fix_count |-> Word("0"),
     report |-> <<"Prompt", " ", "file", " ", "not", " ", "found">>,
     log |-> << <<"ERROR", ":", " ", "Prompt", " ", "file", " ", "not", " ",
                  "found", " ", "at", " ", PromptFileOf(e.mode)>> >>]

\* The step after the fast-fail artifact is written falls through to the
\* rest of the script.
FastFailFallsThrough == "run_claude"

\* exit 1
FastFailExit == "failed_prompt"

\* PARSE REPORT to Validate status (lines 110-145) on the content of
\* $OUTPUT_FILE; rc is 0 when the script reaches line 147 and 1 when a
\* PARSED=$(...) ended it.  A missing file makes grep -q fail.
ExtractAll(f) ==
    LET r == IF f.exists /\ GrepStart(f.text) THEN ExtractReport(f.text) ELSE <<>>
        p == ParseCount(r, "pod_count")
        e == ParseCount(r, "error_count")
        x == ParseCount(r, "fix_count")
        s == ParseStatusValue(r)
        Or(v, d) == IF v # <<>> THEN v ELSE d
    IN IF ~ReportNonEmpty(r)
       THEN [rc |-> 0, REPORT |-> r, POD_COUNT |-> Word("0"),
             ERROR_COUNT |-> Word("0"), FIX_COUNT |-> Word("0"),
             STATUS |-> ValidStatus(Word("ok"))]
       ELSE IF p.rc # 0
       THEN [rc |-> 1, REPORT |-> r, POD_COUNT |-> Word("0"),
             ERROR_COUNT |-> Word("0"), FIX_COUNT |-> Word("0"),
             STATUS |-> Word("ok")]
       ELSE IF e.rc # 0
       THEN [rc |-> 1, REPORT |-> r, POD_COUNT |-> Or(p.out, Word("0")),
             ERROR_COUNT |-> Word("0"), FIX_COUNT |-> Word("0"),
             STATUS |-> Word("ok")]
       ELSE IF x.rc # 0
       THEN [rc |-> 1, REPORT |-> r, POD_COUNT |-> Or(p.out, Word("0")),
             ERROR_COUNT |-> Or(e.out, Word("0")), FIX_COUNT |-> Word("0"),
             STATUS |-> Word("ok")]
       ELSE IF s.rc # 0
       THEN [rc |-> 1, REPORT |-> r, POD_COUNT |-> Or(p.out, Word("0")),
             ERROR_COUNT |-> Or(e.out, Word("0")),
             FIX_COUNT |-> Or(x.out, Word("0")), STATUS |-> Word("ok")]
       ELSE [rc |-> 0, REPORT |-> r, POD_COUNT |-> Or(p.out, Word("0")),
             ERROR_COUNT |-> Or(e.out, Word("0")),
             FIX_COUNT |-> Or(x.out, Word("0")),
             STATUS |-> ValidStatus(Or(s.out, Word("ok")))]

\* FULL_LOG=$(head -c 100000 "$LOG_FILE")
FullLog(f) == CmdSubst(HeadC(f.text, LogFileCap))

\* "log": "$(echo "$FULL_LOG" | sed 's/"/\\"/g' | head -c 50000)"
LogField(fullLog) == CmdSubst(HeadC(MapEscapeQuotes(fullLog), LogCap))

\* The artifact of the normal path (the here-document of lines 155-169).
\* started_at is `date -d @$RUN_ID -Iseconds`, or `date -Iseconds` where
\* date has no -d.
SaveJson(id, e, sh, fullLog, st, t) ==
    [written |-> TRUE, id |-> id, started_at |-> st, ended_at |-> t,
     namespace |-> e.ns, mode |-> e.mode, status |-> sh.STATUS,
     pod_count |-> sh.POD_COUNT, error_count |-> sh.ERROR_COUNT,
     fix_count |-> sh.FIX_COUNT, report |-> EscapeQuotes(sh.REPORT),
     log |-> LogField(fullLog)]

(***************************************************************************)
(* json.Unmarshal of an artifact file written by entrypoint.sh.  The       *)
(* here-documents put the shell values between the quotes of a JSON string *)
(* (status, report, log) or bare (id and the counts).                      *)
(***************************************************************************)
\* A bare value decodes into an int: digits, no leading zero, one line.
JSONNumber(text) ==
    /\ Len(text) = 1
    /\ text[1] # <<>>
    /\ \A k \in DOMAIN text[1] : IsDigit(text[1][k])
    /\ Len(text[1]) > 1 => text[1][1] # "0"

\* Between the quotes of a string: no bare quote, a backslash only before
\* a quote or a backslash.
RECURSIVE JSONStringLine(_)
JSONStringLine(line) ==
    IF line = <<>> THEN TRUE
    ELSE IF Head(line) = QUOTE THEN FALSE
    ELSE IF Head(line) = BACKSLASH
         THEN /\ Len(line) >= 2
              /\ line[2] \in {QUOTE, BACKSLASH}
              /\ JSONStringLine(SubSeq(line, 3, Len(line)))
         ELSE JSONStringLine(Tail(line))

\* ... and no newline: a control character inside a string literal is a
\* syntax error.
JSONString(text) ==
    /\ Len(text) <= 1
    /\ \A k \in DOMAIN text : JSONStringLine(text[k])

\* The string a valid literal stands for.
RECURSIVE Unescape(_)
Unescape(line) ==
    IF line = <<>> THEN <<>>
    ELSE IF Head(line) = BACKSLASH
         THEN <<line[2]>> \o Unescape(SubSeq(line, 3, Len(line)))
         ELSE <<Head(line)>> \o Unescape(Tail(line))

UnescapeText(text) == [k \in DOMAIN text |-> Unescape(text[k])]

\* The int a digit string stands for.
RECURSIVE DigitsValue(_)
DigitsValue(line) ==
    IF line = <<>> THEN 0
    ELSE 10 * DigitsValue(SubSeq(line, 1, Len(line) - 1))
             + (CHOOSE d \in 0..9 : ToString(d) = line[Len(line)])

\* What ImportJSONResults gets from run_<id>.json: the decoded struct, or a
\* decoding error.  The status of an artifact is one word.
RunJsonFile(a) ==
    IF /\ JSONNumber(a.pod_count) /\ JSONNumber(a.error_count)
       /\ JSONNumber(a.fix_count)
       /\ Len(a.status) = 1 /\ Len(a.status[1]) = 1 /\ JSONString(a.status)
       /\ JSONString(<<a.report>>) /\ JSONString(a.log)
    THEN JSONFile([id |-> a.id, started_at |-> a.started_at,
                   ended_at |-> a.ended_at, namespace |-> a.namespace,
                   mode |-> a.mode, status |-> a.status[1][1],
                   pod_count |-> DigitsValue(a.pod_count[1]),
                   error_count |-> DigitsValue(a.error_count[1]),
                   fix_count |-> DigitsValue(a.fix_count[1]),
                   report |-> Unescape(a.report),
                   log |-> UnescapeText(a.log)])
    ELSE BadJSON

NoCycles ==
    /\ cpc = [c \in Cycles |-> "off"]
    /\ env = [c \in Cycles |-> NoEnv]
    /\ RUN_ID = [c \in Cycles |-> 0]
    /\ agent = [c \in Cycles |-> NotRun]
    /\ shell = [c \in Cycles |-> NoShell]
    /\ promptFiles = PromptFiles
    /\ results = [id \in RunIds |-> NoArtifact]
    /\ logFiles = [id \in RunIds |-> NoFile]
    /\ outputFiles = [id \in RunIds |-> NoFile]

Init ==
    /\ files \in SeqsUpTo(FilePool, MaxFiles)
    /\ runs = <<>>
    /\ seq = 1
    /\ now = 1
    /\ pc = [i \in Importers |-> "idle"]
    /\ idx = [i \in Importers |-> 0]
    /\ imported = [i \in Importers |-> 0]
    /\ skipped = [i \in Importers |-> 0]
    /\ ops = 0
    /\ faults = 0
    /\ transcript = <<>>
    /\ wpc = "off"
    /\ REPORT = <<>>
    /\ POD_COUNT = <<>>
    /\ ERROR_COUNT = <<>>
    /\ FIX_COUNT = <<>>
    /\ STATUS = <<>>
    /\ artifact = NoArtifact
    /\ NoCycles

\* The clock advances.
Tick ==
    /\ now < MaxTime
    /\ now' = now + 1
    /\ UNCHANGED <<files, runs, seq, pc, idx, imported, skipped, ops, faults>>
    /\ UNCHANGED wvars
    /\ UNCHANGED cvars

\* CreateRun(namespace, mode): the sequence advances whether or not the
\* INSERT succeeds; a sequence value already used as an id is a unique
\* violation and CreateRun returns the error.
CreateRun(ns, mode) ==
    /\ ops < MaxOps
    /\ ops' = ops + 1
    /\ seq' = seq + 1
    /\ runs' = IF UniqueViolation(runs, NextVal(seq))
               THEN runs
               ELSE Append(runs, CreateRow(NextVal(seq), ns, mode, now))
    /\ UNCHANGED <<files, now, pc, idx, imported, skipped, faults>>
    /\ UNCHANGED wvars
    /\ UNCHANGED cvars

\* CompleteRun(id, status, podCount, errorCount, fixCount, report, log)
CompleteRun(id, status, pods, errs, fixes, report, log) ==
    /\ ops < MaxOps
    /\ ops' = ops + 1
    /\ runs' = CompleteStmt(runs, id, status, pods, errs, fixes, report, log, now)
    /\ UNCHANGED <<files, seq, now, pc, idx, imported, skipped, faults>>
    /\ UNCHANGED wvars
    /\ UNCHANGED cvars

\* The i-th call of ImportJSONResults begins: filepath.Glob, then the loop
\* head.  Calls are numbered in the order they begin.
ImpStart(i) ==
    /\ pc[i] = "idle"
    /\ \A j \in Importers : j < i => pc[j] # "idle"
    /\ pc' = [pc EXCEPT ![i] = IF Len(files) = 0 THEN "done" ELSE "read"]
    /\ idx' = [idx EXCEPT ![i] = 1]
    /\ UNCHANGED <<files, runs, seq, now, imported, skipped, ops, faults>>
    /\ UNCHANGED wvars
    /\ UNCHANGED cvars

\* One iteration up to the existence query: os.ReadFile and json.Unmarshal
\* of files[idx[i]] (both local to the importer), then the query for
\* result.ID.
ImpCheck(i) ==
    /\ pc[i] = "read"
    /\ LET f == files[idx[i]]
           skip == IF Decodes(f)
                   THEN SkipExisting(FALSE, ExistsQuery(runs, f.doc.id))
                   ELSE TRUE
           nxt == IF Decodes(f) THEN Advance(idx[i]) ELSE OnDecodeError(idx[i])
       IN IF skip
          THEN /\ pc' = [pc EXCEPT ![i] = nxt.pc]
               /\ idx' = [idx EXCEPT ![i] = nxt.idx]
               /\ skipped' = [skipped EXCEPT ![i] = @ + 1]
          ELSE /\ pc' = [pc EXCEPT ![i] = "insert"]
               /\ UNCHANGED <<idx, skipped>>
    /\ UNCHANGED <<files, runs, seq, now, imported, ops, faults>>
    /\ UNCHANGED wvars
    /\ UNCHANGED cvars

\* The timestamp defaults and the INSERT.
ImpInsert(i) ==
    /\ pc[i] = "insert"
    /\ LET res == ImportStmt(runs, ImportRow(files[idx[i]].doc, now))
           nxt == IF res.err THEN OnInsertError(idx[i]) ELSE Advance(idx[i])
       IN /\ runs' = res.tbl
          /\ pc' = [pc EXCEPT ![i] = nxt.pc]
          /\ idx' = [idx EXCEPT ![i] = nxt.idx]
          /\ imported' = [imported EXCEPT ![i] = IF res.err THEN @ ELSE @ + 1]
          /\ skipped' = [skipped EXCEPT ![i] = IF res.err THEN @ + 1 ELSE @]
    /\ UNCHANGED <<files, seq, now, ops, faults>>
    /\ UNCHANGED wvars
    /\ UNCHANGED cvars

\* No call of ImportJSONResults other than the i-th is in progress.
OthersQuiet(i) == \A j \in Importers \ {i} : pc[j] \in {"idle", "done"}

\* The store with its writers, and ImportJSONResults called again and again
\* (as by a timer), one call at a time.
Next ==
    \/ Tick
    \/ \E ns \in Namespaces : CreateRun(ns, "autonomous")
    \/ \E id \in Ids, st \in CompleteStatuses :
          CompleteRun(id, st, 5, 1, 1, <<"done">>, << <<"out">> >>)
    \/ \E i \in Importers : OthersQuiet(i) /\ ImpStart(i)
    \/ \E i \in Importers : ImpCheck(i)
    \/ \E i \in Importers : ImpInsert(i)

Spec == Init /\ [][Next]_vars

\* Overlapping calls of ImportJSONResults, with CreateRun as another writer.
NextRace ==
    \/ \E ns \in Namespaces : CreateRun(ns, "autonomous")
    \/ \E i \in Importers : ImpStart(i)
    \/ \E i \in Importers : ImpCheck(i)
    \/ \E i \in Importers : ImpInsert(i)

SpecRace == Init /\ [][NextRace]_vars

(***************************************************************************)
(* entrypoint.sh from PARSE REPORT on, run under `set -e`.                 *)
(***************************************************************************)
InitWatch ==
    /\ files = <<>>
    /\ runs = <<>>
    /\ seq = 1
    /\ now = 1
    /\ pc = [i \in Importers |-> "idle"]
    /\ idx = [i \in Importers |-> 0]
    /\ imported = [i \in Importers |-> 0]
    /\ skipped = [i \in Importers |-> 0]
    /\ ops = 0
    /\ faults = 0
    /\ transcript \in SeqsUpTo(LinePool, MaxLines)
    /\ wpc = "parse_report"
    /\ REPORT = <<>>
    /\ POD_COUNT = <<>>
    /\ ERROR_COUNT = <<>>
    /\ FIX_COUNT = <<>>
    /\ STATUS = <<>>
    /\ artifact = NoArtifact
    /\ NoCycles

dbvars == <<files, runs, seq, now, pc, idx, imported, skipped, ops, faults>>

\* REPORT="" ; if grep -q ...; then REPORT=$(...); fi ; the four defaults ;
\* if [ -n "$REPORT" ]
ParseReport ==
    /\ wpc = "parse_report"
    /\ LET r == IF GrepStart(transcript) THEN ExtractReport(transcript) ELSE <<>>
       IN /\ REPORT' = r
          /\ wpc' = IF ReportNonEmpty(r) THEN "pod_count" ELSE "validate"
    /\ POD_COUNT' = Word("0")
    /\ ERROR_COUNT' = Word("0")
    /\ FIX_COUNT' = Word("0")
    /\ STATUS' = Word("ok")
    /\ UNCHANGED <<transcript, artifact>>
    /\ UNCHANGED dbvars
    /\ UNCHANGED cvars

\* PARSED=$(...) ; [ -n "$PARSED" ] && POD_COUNT=$PARSED
\* A failing PARSED=$(...) ends the script (set -e).
ParsePodCount ==
    /\ wpc = "pod_count"
    /\ LET p == ParseCount(REPORT, "pod_count")
       IN IF p.rc # 0
          THEN wpc' = "aborted" /\ UNCHANGED POD_COUNT
          ELSE /\ wpc' = "error_count"
               /\ POD_COUNT' = IF p.out # <<>> THEN p.out ELSE POD_COUNT
    /\ UNCHANGED <<transcript, REPORT, ERROR_COUNT, FIX_COUNT, STATUS, artifact>>
    /\ UNCHANGED dbvars
    /\ UNCHANGED cvars

ParseErrorCount ==
    /\ wpc = "error_count"
    /\ LET p == ParseCount(REPORT, "error_count")
       IN IF p.rc # 0
          THEN wpc' = "aborted" /\ UNCHANGED ERROR_COUNT
          ELSE /\ wpc' = "fix_count"
               /\ ERROR_COUNT' = IF p.out # <<>> THEN p.out ELSE ERROR_COUNT
    /\ UNCHANGED <<transcript, REPORT, POD_COUNT, FIX_COUNT, STATUS, artifact>>
    /\ UNCHANGED dbvars
    /\ UNCHANGED cvars

ParseFixCount ==
    /\ wpc = "fix_count"
    /\ LET p == ParseCount(REPORT, "fix_count")
       IN IF p.rc # 0
          THEN wpc' = "aborted" /\ UNCHANGED FIX_COUNT
          ELSE /\ wpc' = "status"
               /\ FIX_COUNT' = IF p.out # <<>> THEN p.out ELSE FIX_COUNT
    /\ UNCHANGED <<transcript, REPORT, POD_COUNT, ERROR_COUNT, STATUS, artifact>>
    /\ UNCHANGED dbvars
    /\ UNCHANGED cvars

ParseStatus ==
    /\ wpc = "status"
    /\ LET p == ParseStatusValue(REPORT)
       IN IF p.rc # 0
          THEN wpc' = "aborted" /\ UNCHANGED STATUS
          ELSE /\ wpc' = "validate"
               /\ STATUS' = IF p.out # <<>> THEN p.out ELSE STATUS
    /\ UNCHANGED <<transcript, REPORT, POD_COUNT, ERROR_COUNT, FIX_COUNT, artifact>>
    /\ UNCHANGED dbvars
    /\ UNCHANGED cvars

\* Validate status is one of expected values
ValidateStatus ==
    /\ wpc = "validate"
    /\ STATUS' = ValidStatus(STATUS)
    /\ wpc' = "save"
    /\ UNCHANGED <<transcript, REPORT, POD_COUNT, ERROR_COUNT, FIX_COUNT, artifact>>
    /\ UNCHANGED dbvars
    /\ UNCHANGED cvars

\* cat > "$RESULTS_DIR/run_${RUN_ID}.json" <<EOF ... EOF
SaveResult ==
    /\ wpc = "save"
    /\ artifact' = [written |-> TRUE, status |-> STATUS, pod_count |-> POD_COUNT,
                    error_count |-> ERROR_COUNT, fix_count |-> FIX_COUNT,
                    report |-> REPORT]
    /\ wpc' = "done"
    /\ UNCHANGED <<transcript, REPORT, POD_COUNT, ERROR_COUNT, FIX_COUNT, STATUS>>
    /\ UNCHANGED dbvars
    /\ UNCHANGED cvars

NextWatch ==
    \/ ParseReport
    \/ ParsePodCount
    \/ ParseErrorCount
    \/ ParseFixCount
    \/ ParseStatus
    \/ ValidateStatus
    \/ SaveResult

SpecWatch == InitWatch /\ [][NextWatch]_vars

(***************************************************************************)
(* entrypoint.sh: watch cycles that share the clock and the directories.   *)
(***************************************************************************)
InitCycle ==
    /\ files = <<>>
    /\ runs = <<>>
    /\ seq = 1
    /\ now = 1
    /\ pc = [i \in Importers |-> "idle"]
    /\ idx = [i \in Importers |-> 0]
    /\ imported = [i \in Importers |-> 0]
    /\ skipped = [i \in Importers |-> 0]
    /\ ops = 0
    /\ faults = 0
    /\ transcript = <<>>
    /\ wpc = "off"
    /\ REPORT = <<>>
    /\ POD_COUNT = <<>>
    /\ ERROR_COUNT = <<>>
    /\ FIX_COUNT = <<>>
    /\ STATUS = <<>>
    /\ artifact = NoArtifact
    /\ cpc = [c \in Cycles |-> "start"]
    /\ env = [c \in Cycles |-> NoEnv]
    /\ RUN_ID = [c \in Cycles |-> 0]
    /\ agent = [c \in Cycles |-> NotRun]
    /\ shell = [c \in Cycles |-> NoShell]
    /\ promptFiles \in SUBSET PromptFiles
    /\ results = [id \in RunIds |-> NoArtifact]
    /\ logFiles = [id \in RunIds |-> NoFile]
    /\ outputFiles = [id \in RunIds |-> NoFile]

\* RUN_ID=$(date +%s), in the environment the cycle was started with.
\* Cycles are numbered in the order they reach this line.
GenerateRunId(c) ==
    /\ cpc[c] = "start"
    /\ \A d \in Cycles : d < c => cpc[d] # "start"
    /\ \E e \in Environments : env' = [env EXCEPT ![c] = e]
    /\ RUN_ID' = [RUN_ID EXCEPT ![c] = now]
    /\ cpc' = [cpc EXCEPT ![c] = "select_prompt"]
    /\ UNCHANGED <<agent, shell, promptFiles, results, logFiles, outputFiles>>
    /\ UNCHANGED dbvars
    /\ UNCHANGED wvars

\* SELECT PROMPT: without the prompt file the failed artifact is written
\* and the script exits; with it the log file is begun.
SelectPrompt(c) ==
    /\ cpc[c] = "select_prompt"
    /\ IF PromptFileOf(env[c].mode) \notin promptFiles
       THEN /\ results' = [results EXCEPT
                              ![RUN_ID[c]] = FastFailJson(RUN_ID[c], env[c], now)]
            /\ cpc' = [cpc EXCEPT ![c] = FastFailExit]
            /\ UNCHANGED logFiles
       ELSE /\ logFiles' = [logFiles EXCEPT
                              ![RUN_ID[c]] = File(LogHeader(RUN_ID[c], env[c], now))]
            /\ cpc' = [cpc EXCEPT ![c] = "run_claude"]
            /\ UNCHANGED results
    /\ UNCHANGED <<env, RUN_ID, agent, shell, promptFiles, outputFiles>>
    /\ UNCHANGED dbvars
    /\ UNCHANGED wvars

\* RUN CLAUDE: the agent's output goes to the log file and to the output
\* file, then the "Complete" line goes to the log file.
RunClaude(c) ==
    /\ cpc[c] = "run_claude"
    /\ \E a \in AgentRuns :
          /\ agent' = [agent EXCEPT ![c] = a]
          /\ outputFiles' = [outputFiles EXCEPT ![RUN_ID[c]] = File(a.out)]
          /\ IF RunClaudeStatus(a.rc) # 0
             THEN /\ cpc' = [cpc EXCEPT ![c] = "aborted"]
                  /\ logFiles' = [logFiles EXCEPT ![RUN_ID[c]] =
                                     File(logFiles[RUN_ID[c]].text \o a.out)]
             ELSE /\ cpc' = [cpc EXCEPT ![c] = "parse_report"]
                  /\ logFiles' = [logFiles EXCEPT ![RUN_ID[c]] =
                                     File(logFiles[RUN_ID[c]].text \o a.out
                                              \o LogComplete(RUN_ID[c]))]
    /\ UNCHANGED <<env, RUN_ID, shell, promptFiles, results>>
    /\ UNCHANGED dbvars
    /\ UNCHANGED wvars

\* PARSE REPORT, the four parses and the validation, all on the cycle's own
\* variables after $OUTPUT_FILE is read.
ParseOutput(c) ==
    /\ cpc[c] = "parse_report"
    /\ \E x \in {ExtractAll(outputFiles[RUN_ID[c]])} :
          /\ shell' = [shell EXCEPT ![c] =
                         [REPORT |-> x.REPORT, POD_COUNT |-> x.POD_COUNT,
                          ERROR_COUNT |-> x.ERROR_COUNT, FIX_COUNT |-> x.FIX_COUNT,
                          STATUS |-> x.STATUS]]
          /\ cpc' = [cpc EXCEPT ![c] = IF x.rc # 0 THEN "aborted" ELSE "save"]
    /\ UNCHANGED <<env, RUN_ID, agent, promptFiles, results, logFiles, outputFiles>>
    /\ UNCHANGED dbvars
    /\ UNCHANGED wvars

\* FULL_LOG=..., SAVE RUN RESULT TO FILE, rm -f "$OUTPUT_FILE"
SaveRunResult(c) ==
    /\ cpc[c] = "save"
    /\ \E st \in {RUN_ID[c], now} :
          results' = [results EXCEPT ![RUN_ID[c]] =
                         SaveJson(RUN_ID[c], env[c], shell[c],
                                  FullLog(logFiles[RUN_ID[c]]), st, now)]
    /\ outputFiles' = [outputFiles EXCEPT ![RUN_ID[c]] = NoFile]
    /\ cpc' = [cpc EXCEPT ![c] = "done"]
    /\ UNCHANGED <<env, RUN_ID, agent, shell, promptFiles, logFiles>>
    /\ UNCHANGED dbvars
    /\ UNCHANGED wvars

NextCycle ==
    \/ Tick
    \/ \E c \in Cycles : GenerateRunId(c)
    \/ \E c \in Cycles : SelectPrompt(c)
    \/ \E c \in Cycles : RunClaude(c)
    \/ \E c \in Cycles : ParseOutput(c)
    \/ \E c \in Cycles : SaveRunResult(c)

SpecCycle == InitCycle /\ [][NextCycle]_vars

(***************************************************************************)
(* ImportJSONResults called again and again while artifacts keep arriving  *)
(* and the store fails some statements.                                    *)
(***************************************************************************)
\* No call of ImportJSONResults is in progress.
Quiet == \A i \in Importers : pc[i] \in {"idle", "done"}

\* The directory listing with one more file at position p.
InsertAt(s, p, f) == SubSeq(s, 1, p - 1) \o <<f>> \o SubSeq(s, p, Len(s))

InitLive == Init /\ files = <<>>

\* Another run_*.json file appears in the results directory; its name puts
\* it anywhere in the order of filepath.Glob.  A call in progress works on
\* the listing it took when it began, so a file that arrives during a call
\* is first seen by the next one: files, the listing, changes between calls.
WriteArtifact(f, p) ==
    /\ Quiet
    /\ Len(files) < MaxFiles
    /\ files' = InsertAt(files, p, f)
    /\ UNCHANGED <<runs, seq, now, pc, idx, imported, skipped, ops, faults>>
    /\ UNCHANGED wvars
    /\ UNCHANGED cvars

\* The existence query fails (err != nil): the file is skipped, as if the
\* row existed.
ImpCheckError(i) ==
    /\ pc[i] = "read"
    /\ Decodes(files[idx[i]])
    /\ faults < MaxFaults
    /\ faults' = faults + 1
    /\ SkipExisting(TRUE, ExistsQuery(runs, files[idx[i]].doc.id))
    /\ LET nxt == Advance(idx[i])
       IN /\ pc' = [pc EXCEPT ![i] = nxt.pc]
          /\ idx' = [idx EXCEPT ![i] = nxt.idx]
    /\ skipped' = [skipped EXCEPT ![i] = @ + 1]
    /\ UNCHANGED <<files, runs, seq, now, imported, ops>>
    /\ UNCHANGED wvars
    /\ UNCHANGED cvars

\* An importer that sets a file aside once it has tried to insert it: after a
\* failed INSERT the file is gone from the listing.
ImpInsertErrorConsumes(i) ==
    /\ pc[i] = "insert"
    /\ faults < MaxFaults
    /\ faults' = faults + 1
    /\ files' = SubSeq(files, 1, idx[i] - 1) \o SubSeq(files, idx[i] + 1, Len(files))
    /\ pc' = [pc EXCEPT ![i] = IF idx[i] > Len(files') THEN "done" ELSE "read"]
    /\ skipped' = [skipped EXCEPT ![i] = @ + 1]
    /\ UNCHANGED <<runs, seq, now, idx, imported, ops>>
    /\ UNCHANGED wvars
    /\ UNCHANGED cvars

\* The INSERT fails for a reason of the store's own: no row is added and
\* the file is skipped.
ImpInsertError(i) ==
    /\ pc[i] = "insert"
    /\ faults < MaxFaults
    /\ faults' = faults + 1
    /\ LET nxt == OnInsertError(idx[i])
       IN /\ pc' = [pc EXCEPT ![i] = nxt.pc]
          /\ idx' = [idx EXCEPT ![i] = nxt.idx]
    /\ skipped' = [skipped EXCEPT ![i] = @ + 1]
    /\ UNCHANGED <<files, runs, seq, now, imported, ops>>
    /\ UNCHANGED wvars
    /\ UNCHANGED cvars

\* The timer's calls follow one another, so one call's state stands for
\* all of them.
Timer == 1

\* The call has returned and the timer fires again: the next call begins
\* with fresh locals.
TimerRestarts ==
    /\ pc[Timer] = "done"
    /\ pc' = [pc EXCEPT ![Timer] = "idle"]
    /\ idx' = [idx EXCEPT ![Timer] = 0]
    /\ imported' = [imported EXCEPT ![Timer] = 0]
    /\ skipped' = [skipped EXCEPT ![Timer] = 0]
    /\ UNCHANGED <<files, runs, seq, now, ops, faults>>
    /\ UNCHANGED wvars
    /\ UNCHANGED cvars

\* What the dashboard does on its own: the timer and the calls it makes.
Importing ==
    \/ ImpStart(Timer)
    \/ ImpCheck(Timer)
    \/ ImpInsert(Timer)
    \/ ImpCheckError(Timer)
    \/ ImpInsertError(Timer)
    \/ TimerRestarts

NextLive ==
    \/ Tick
    \/ \E f \in FilePool, p \in 1..MaxFiles :
          p <= Len(files) + 1 /\ WriteArtifact(f, p)
    \/ Importing

\* The timer keeps firing and a call that has begun runs to its end.
SpecLive == InitLive /\ [][NextLive]_vars /\ WF_vars(Importing)

(***************************************************************************)
(* Properties of the import and of the run lifecycle.                      *)
(***************************************************************************)
\* Ids of the artifacts that can be read, decode, and whose row PostgreSQL
\* accepts.
ValidIds ==
    { files[k].doc.id : k \in { j \in DOMAIN files :
          Decodes(files[j]) /\ ~TypeError(ImportRow(files[j].doc, now)) } }

ImportersQuiet == \A i \in Importers : pc[i] \in {"idle", "done"}

\* The calls of ImportJSONResults that have returned.
Returned == { i \in Importers : pc[i] = "done" }

\* C1: once one call of ImportJSONResults has returned, no step of a later
\* call over the same artifact files inserts a row or changes the table,
\* whatever CreateRun, CompleteRun and the clock do in between.
ImportIdempotent ==
    [][(Returned # {} /\ pc' # pc) =>
          /\ runs' = runs
          /\ imported' = imported]_vars

\* Two calls have run one after the other over a directory with an
\* importable artifact and nothing else wrote to the store: the first
\* inserted a row per importable id, the second inserted nothing and
\* skipped every file.
ImportIdempotentWitness ==
    /\ pc[1] = "done" /\ pc[2] = "done" /\ ops = 0
    /\ ValidIds # {} /\ RowIds(runs) = ValidIds
    /\ imported[1] = Cardinality(ValidIds)
    /\ imported[2] = 0 /\ skipped[2] = Len(files)

\* C2: no step of ImportJSONResults updates or deletes a row: every row
\* present before the step is present, field for field, after it.
FirstImportWins ==
    [][pc' # pc =>
          /\ Len(runs') >= Len(runs)
          /\ \A k \in DOMAIN runs : runs'[k] = runs[k]]_vars

\* A call has returned over a directory holding an importable artifact with
\* id 1 while the row with id 1 is the one CreateRun made (namespace dev,
\* still running): the artifact was skipped and the row kept.
FirstImportWinsWitness ==
    /\ Returned # {}
    /\ \E j \in DOMAIN files : files[j] = JSONFile(Doc(1, 1, 1, "fixed"))
    /\ \E k \in DOMAIN runs :
          /\ runs[k].id = 1
          /\ runs[k].namespace = "dev"
          /\ runs[k].status = "running"

\* C3: under every interleaving of overlapping calls no two rows share an
\* id, a call that has returned went through every file (a failed insert
\* did not end its batch), and once no call is in progress every importable
\* artifact id has exactly one row.
ConcurrentImportUnique ==
    /\ \A x \in RowIds(runs) : Cardinality(RowsWithId(runs, x)) = 1
    /\ \A i \in Importers : pc[i] = "done" => idx[i] = Len(files) + 1
    /\ (Returned # {} /\ ImportersQuiet) =>
          \A x \in ValidIds : Cardinality(RowsWithId(runs, x)) = 1

\* The race is lost: call 2 found the id of the first file absent and is
\* about to insert it, call 1 has meanwhile inserted that id, gone through
\* both files and returned; call 2's insert can only fail, and a second
\* file is still ahead of it.
ConcurrentImportUniqueWitness ==
    /\ Len(files) = 2 /\ ops = 0
    /\ pc[1] = "done" /\ imported[1] >= 1
    /\ pc[2] = "insert" /\ idx[2] = 1
    /\ files[1].doc.id \in ValidIds
    /\ ExistsQuery(runs, files[1].doc.id)

\* C4: between a call's existence check answering "absent" for an id and
\* that call's insert, no row with that id appears in the table.
CheckThenInsertIsOneUnit ==
    \A i \in Importers :
        pc[i] = "insert" => ~ExistsQuery(runs, files[idx[i]].doc.id)

\* C5: the first call, when nothing else writes to the store, returns after
\* going through every file, having inserted one row per importable
\* artifact id and skipped every other file; unreadable files, undecodable
\* files and rejected inserts end nothing.
BatchNeverAborted ==
    (pc[1] = "done" /\ ops = 0 /\ \A j \in Importers \ {1} : pc[j] = "idle") =>
        /\ idx[1] = Len(files) + 1
        /\ imported[1] = Cardinality(ValidIds)
        /\ skipped[1] = Len(files) - imported[1]
        /\ RowIds(runs) = ValidIds

\* A single call over a directory whose first file does not decode and
\* whose second is an importable artifact: one row inserted, one skip.
BatchNeverAbortedWitness ==
    /\ pc[1] = "done" /\ pc[2] = "idle" /\ ops = 0
    /\ Len(files) = 2
    /\ ~Decodes(files[1])
    /\ Decodes(files[2]) /\ files[2].doc.id \in ValidIds
    /\ imported[1] = 1 /\ skipped[1] = 1

\* C6: a row's status changes only from running to a terminal status, and
\* a row whose status is not running is never changed again by any step.
RunLifecycle ==
    [][\A k \in DOMAIN runs :
          /\ k \in DOMAIN runs'
          /\ runs[k].status # "running" => runs'[k] = runs[k]
          /\ runs'[k].status # runs[k].status =>
                runs[k].status = "running" /\ runs'[k].status \in Terminal]_vars

\* C7: a row whose status is running has an empty ended_at.
RunningHasNoEndedAt ==
    \A k \in DOMAIN runs :
        runs[k].status = "running" => runs[k].ended_at = NoTime

\* C8: every row of the runs table has a status in the closed set
\* {ok, fixed, failed, issues_found, running}.
StoredStatusInEnum ==
    \A k \in DOMAIN runs : runs[k].status \in StatusEnum

(***************************************************************************)
(* Properties of the report extractor.                                     *)
(***************************************************************************)
NoStartMarker == \A k \in DOMAIN transcript : ~HasToken(transcript[k], START)

ExtractorFinished == wpc \in {"done", "aborted"}

\* C9: for a transcript without a start marker the watch cycle never stops
\* early, the extracted report is empty, the three counts are 0 and the
\* status is ok, and these are the values written to the artifact.
NoMarkerGivesDefaults ==
    (NoStartMarker /\ wpc # "parse_report") =>
        /\ wpc # "aborted"
        /\ REPORT = <<>>
        /\ POD_COUNT = Word("0") /\ ERROR_COUNT = Word("0") /\ FIX_COUNT = Word("0")
        /\ STATUS = Word("ok")
        /\ wpc = "done" =>
              /\ artifact.written
              /\ artifact.report = <<>>
              /\ artifact.pod_count = Word("0")
              /\ artifact.error_count = Word("0")
              /\ artifact.fix_count = Word("0")
              /\ artifact.status = Word("ok")

\* The cycle has finished on a transcript that has no start marker but does
\* have an end marker and the text "status":"failed","pod_count":5,...
NoMarkerGivesDefaultsWitness ==
    /\ wpc = "done"
    /\ NoStartMarker
    /\ \E k \in DOMAIN transcript : HasToken(transcript[k], END)
    /\ \E k \in DOMAIN transcript :
          HasToken(transcript[k], "failed") /\ HasToken(transcript[k], "pod_count")

\* What the claim expects of a count: the digits of the first
\* "<key>": <integer> in the report block, 0 when there is none.
ExpectedCount(key) ==
    LET ints == MapTrailingDigits(GrepO(REPORT, 1, key))
    IN IF ints = <<>> THEN Word("0") ELSE <<Head(ints)>>

\* What the claim expects of the status: the first "status": "<string>" in
\* the block, ok when there is none or when the string is not in the enum.
ExpectedStatus ==
    LET ms == GrepO(REPORT, 1, "status")
    IN IF ms = <<>> THEN Word("ok")
       ELSE IF \E w \in StatusEnum : SedLastQuoted(Head(ms)) = <<w>>
            THEN <<SedLastQuoted(Head(ms))>>
            ELSE Word("ok")

\* C10: for a transcript with a report block the cycle yields, for each of
\* pod_count, error_count, fix_count and status, the first value bound to
\* that field in the block, and 0 (ok) for a field that is absent or not
\* numeric, whether or not the other fields are present or repeated.
FieldsAreFirstValues ==
    (~NoStartMarker /\ ExtractorFinished) =>
        /\ wpc = "done"
        /\ artifact.pod_count = ExpectedCount("pod_count")
        /\ artifact.error_count = ExpectedCount("error_count")
        /\ artifact.fix_count = ExpectedCount("fix_count")
        /\ artifact.status = ExpectedStatus

(***************************************************************************)
(* Properties of the watch cycle.                                          *)
(***************************************************************************)
\* The cycle's script has ended: exit 1 of the fast-fail path, an exit
\* under set -e, or its last line.
Ended(c) == cpc[c] \in {"failed_prompt", "aborted", "done"}

\* C11: a cycle that finds the prompt file of its mode missing writes, in
\* that step, the artifact of its run id and no other file: status failed,
\* the three counts 0, a one-line log that names the missing file; the
\* cycle then is at its exit and stays there, its agent was never started
\* and none of its report variables was ever set.
FastFailPath ==
    [][\A c \in Cycles :
          /\ (/\ cpc[c] = "select_prompt"
              /\ cpc'[c] # "select_prompt"
              /\ PromptFileOf(env[c].mode) \notin promptFiles) =>
                 /\ cpc'[c] = "failed_prompt"
                 /\ \A id \in RunIds \ {RUN_ID[c]} : results'[id] = results[id]
                 /\ logFiles' = logFiles /\ outputFiles' = outputFiles
                 /\ LET a == results'[RUN_ID[c]]
                    IN /\ a.written
                       /\ a.id = RUN_ID[c]
                       /\ a.status = Word("failed")
                       /\ a.pod_count = Word("0")
                       /\ a.error_count = Word("0")
                       /\ a.fix_count = Word("0")
                       /\ Len(a.log) = 1
                       /\ HasToken(a.log[1], PromptFileOf(env[c].mode))
          /\ cpc[c] = "failed_prompt" =>
                 /\ cpc'[c] = "failed_prompt"
                 /\ agent'[c] = NotRun
                 /\ shell'[c] = NoShell]_vars

\* Cycle 1 took the fast-fail path and its artifact is in place, while
\* cycle 2, run in the other mode under another id, went through the agent
\* and wrote its own artifact.
FastFailPathWitness ==
    /\ cpc[1] = "failed_prompt"
    /\ cpc[2] = "done"
    /\ RUN_ID[1] # RUN_ID[2]
    /\ agent[1] = NotRun /\ agent[2] # NotRun
    /\ results[RUN_ID[1]].written
    /\ results[RUN_ID[1]].status = Word("failed")

\* The cycle failed: no prompt file, an agent that exited with an error or
\* left no report block, or a script ended by set -e.
CycleFailed(c) ==
    \/ cpc[c] \in {"failed_prompt", "aborted"}
    \/ agent[c] # NotRun /\ agent[c].rc # 0
    \/ agent[c] # NotRun /\ ~GrepStart(agent[c].out)

\* C12: a cycle that has ended has an artifact under its run id; when the
\* cycle failed, that artifact has status failed and is a file that
\* ImportJSONResults can decode into a row with that id and status failed.
EveryFailureRecorded ==
    \A c \in Cycles :
        Ended(c) =>
            /\ results[RUN_ID[c]].written
            /\ CycleFailed(c) =>
                  /\ results[RUN_ID[c]].status = Word("failed")
                  /\ Decodes(RunJsonFile(results[RUN_ID[c]]))
                  /\ RunJsonFile(results[RUN_ID[c]]).doc.id = RUN_ID[c]
                  /\ RunJsonFile(results[RUN_ID[c]]).doc.status = "failed"

\* C13: cycles that have taken a run id have different ids, and the
\* artifact under the id of a cycle that wrote one is the artifact of that
\* cycle: its namespace, mode, status and report.
DistinctRunIds ==
    /\ \A c, d \in Cycles :
          (c # d /\ RUN_ID[c] # 0 /\ RUN_ID[d] # 0) => RUN_ID[c] # RUN_ID[d]
    /\ \A c \in Cycles :
          cpc[c] \in {"failed_prompt", "done"} =>
              LET a == results[RUN_ID[c]]
              IN /\ a.written
                 /\ a.namespace = env[c].ns
                 /\ a.mode = env[c].mode
                 /\ cpc[c] = "failed_prompt" => a.status = Word("failed")
                 /\ cpc[c] = "done" =>
                       /\ a.status = shell[c].STATUS
                       /\ a.report = EscapeQuotes(shell[c].REPORT)

\* C20: the status of every artifact a cycle has written is one of ok,
\* fixed, failed, issues_found.
ArtifactStatusTerminal ==
    \A id \in RunIds :
        results[id].written => \E w \in Terminal : results[id].status = Word(w)

(***************************************************************************)
(* Properties of the queries and of CreateRun and CompleteRun.             *)
(***************************************************************************)
RowsOf(ns) == { k \in DOMAIN runs : runs[k].namespace = ns }
RowsOfWith(ns, statuses) == { k \in RowsOf(ns) : runs[k].status \in statuses }

\* C14: in every state of the table GetNamespaces has one row for each
\* namespace that has a run and no other row, in the order of the
\* namespaces; run_count, ok_count, fixed_count and failed_count are the
\* numbers of that namespace's runs, of those with status ok, with status
\* fixed, and with status failed or issues_found; the three add up to no
\* more than run_count, and to run_count only when no run of the namespace
\* is running.
NamespaceCounts ==
    LET g == GetNamespaces(runs)
    IN /\ { g[k].Namespace : k \in DOMAIN g } = { runs[k].namespace : k \in DOMAIN runs }
       /\ \A i, j \in DOMAIN g :
             i < j => \E a, b \in DOMAIN NamespaceOrder :
                         /\ a < b
                         /\ NamespaceOrder[a] = g[i].Namespace
                         /\ NamespaceOrder[b] = g[j].Namespace
       /\ \A k \in DOMAIN g :
             LET ns == g[k].Namespace
             IN /\ g[k].RunCount = Cardinality(RowsOf(ns))
                /\ g[k].OkCount = Cardinality(RowsOfWith(ns, {"ok"}))
                /\ g[k].FixedCount = Cardinality(RowsOfWith(ns, {"fixed"}))
                /\ g[k].FailedCount =
                      Cardinality(RowsOfWith(ns, {"failed", "issues_found"}))
                /\ g[k].OkCount + g[k].FixedCount + g[k].FailedCount <= g[k].RunCount
                /\ g[k].OkCount + g[k].FixedCount + g[k].FailedCount = g[k].RunCount
                      => RowsOfWith(ns, {"running"}) = {}

\* prod has two imported runs, one completed since as issues_found and one
\* that is running: failed_count is 1 and the sum stays below run_count.
NamespaceCountsWitness ==
    LET g == GetNamespaces(runs)
    IN /\ Len(g) = 1
       /\ g[1].Namespace = "prod"
       /\ g[1].RunCount = 2
       /\ g[1].FailedCount = 1
       /\ g[1].OkCount = 0 /\ g[1].FixedCount = 0
       /\ RowsOfWith("prod", {"issues_found"}) # {}
       /\ RowsOfWith("prod", {"running"}) # {}

\* C15: a step of ImportJSONResults that changes the table adds one row,
\* and that row has the id, namespace, mode, status, counts, report and log
\* of the artifact the call is at, and its timestamps where the artifact
\* has them; every row a step adds is either CreateRun's or has the id of
\* an artifact file in the directory.
ImportPreservesArtifact ==
    [][/\ (pc' # pc /\ runs' # runs) =>
             \E i \in Importers :
                /\ pc[i] = "insert" /\ pc'[i] # "insert"
                /\ runs' = Append(runs, runs'[Len(runs')])
                /\ LET d == files[idx[i]].doc
                       r == runs'[Len(runs')]
                   IN /\ r.id = d.id
                      /\ r.namespace = d.namespace /\ r.mode = d.mode
                      /\ r.status = d.status
                      /\ r.pod_count = d.pod_count
                      /\ r.error_count = d.error_count
                      /\ r.fix_count = d.fix_count
                      /\ r.report = d.report /\ r.log = d.log
                      /\ d.started_at # NoTime => r.started_at = d.started_at
                      /\ d.ended_at # NoTime => r.ended_at = d.ended_at
                      /\ r.started_at # NoTime /\ r.ended_at # NoTime
       /\ \A k \in DOMAIN runs' \ DOMAIN runs :
             \/ seq' # seq
             \/ \E j \in DOMAIN files :
                   Decodes(files[j]) /\ files[j].doc.id = runs'[k].id]_vars

\* A call has imported both artifacts of a directory: the complete one
\* (id 1, fixed, timestamps 1 and 1) and, after the clock moved on, the one
\* without timestamps (id 2, running), whose row got the time of import.
ImportPreservesArtifactWitness ==
    /\ Returned # {} /\ ops = 0 /\ Len(runs) = 2
    /\ \E k \in DOMAIN runs :
          /\ runs[k].id = 1 /\ runs[k].status = "fixed"
          /\ runs[k].started_at = 1 /\ runs[k].ended_at = 1
          /\ runs[k].report = <<"report">>
    /\ \E k \in DOMAIN runs :
          /\ runs[k].id = 2 /\ runs[k].status = "running"
          /\ runs[k].started_at = 2

\* The runs of a namespace that count for GetLastRunTime.
CompletedRows(ns) == { k \in RowsOf(ns) : runs[k].status # "running" }

\* C16: for every namespace, GetLastRunTime is empty exactly when the
\* namespace has no run with a status other than running; otherwise it is
\* the ended_at of such a run and no such run has a later one.  Runs that
\* are running and runs of other namespaces do not enter.
LastRunTimeIsMaxCompleted ==
    \A ns \in Namespaces :
        LET t == GetLastRunTime(runs, ns)
        IN /\ t = NoTime <=> CompletedRows(ns) = {}
           /\ t # NoTime =>
                 /\ \E k \in CompletedRows(ns) : runs[k].ended_at = t
                 /\ \A k \in CompletedRows(ns) : runs[k].ended_at <= t

\* prod has a completed run that ended at 1 and a run that is running yet
\* carries the later ended_at 2 (an imported artifact); the answer is 1.
LastRunTimeIsMaxCompletedWitness ==
    /\ GetLastRunTime(runs, "prod") = 1
    /\ \E k \in RowsOf("prod") :
          runs[k].status = "running" /\ runs[k].ended_at = 2
    /\ GetLastRunTime(runs, "dev") = NoTime

\* C17: every call of CreateRun adds exactly one row, whose id no row had
\* before, with status running, no ended_at and the three counts 0, and
\* leaves the rows that were there as they were.
CreateRunIsFresh ==
    [][seq' # seq =>
          /\ Len(runs') = Len(runs) + 1
          /\ \A k \in DOMAIN runs : runs'[k] = runs[k]
          /\ LET r == runs'[Len(runs')]
             IN /\ r.id \notin RowIds(runs)
                /\ r.status = "running"
                /\ r.ended_at = NoTime
                /\ r.pod_count = 0 /\ r.error_count = 0 /\ r.fix_count = 0]_vars

\* The seven columns CompleteRun writes.
Completed(row, st, t) ==
    [row EXCEPT !.ended_at = t, !.status = st, !.pod_count = 5,
                !.error_count = 1, !.fix_count = 1, !.report = <<"done">>,
                !.log = << <<"out">> >>]

LogIsBounded ==
    /\ \A id \in RunIds :
          results[id].written => TextBytes(results[id].log) <= LogCap
    /\ \A k \in DOMAIN runs : TextBytes(runs[k].log) <= LogCap


(***************************************************************************)
(* Properties of repeated imports.                                         *)
(***************************************************************************)
\* The artifacts that can be read and decoded.
Decodable == { f \in FilePool : Decodes(f) }

\* File f is in the results directory.
Listed(f) == \E k \in DOMAIN files : files[k] = f

\* The runs table has a row with the id of artifact f.
Stored(f) == f.doc.id \in RowIds(runs)

\* C21 as stated: with ImportJSONResults called again and again, artifacts
\* arriving over time and the store failing only finitely many statements,
\* every readable, decodable artifact in the directory is eventually in the
\* runs table (a row with its id exists).
EveryArtifactEventuallyStored ==
    \A f \in Decodable : Listed(f) ~> Stored(f)

\* C21, amended: with ImportJSONResults called again and again, artifacts
\* arriving over time and the store failing only finitely many statements,
\* every readable, decodable artifact whose timestamps the store accepts is
\* eventually in the runs table; and a failed existence query or INSERT
\* changes neither the table nor the directory, so the artifact is taken up
\* again by a later call.
EventualImport ==
    /\ \A f \in Decodable : (Listed(f) /\ ~TypeError(f.doc)) ~> Stored(f)
    /\ [][faults' # faults => runs' = runs /\ files' = files]_vars

\* The directory holds one artifact; the store has failed one statement, in
\* an earlier call that had this artifact before it, and the call that has
\* just returned inserted it.
EventualImportWitness ==
    /\ Len(files) = 1 /\ Decodes(files[1])
    /\ faults = 1
    /\ pc[Timer] = "done"
    /\ imported[Timer] = 1 /\ skipped[Timer] = 0
    /\ Stored(files[1])

(***************************************************************************)
(* Properties of the enumeration order.                                    *)
(***************************************************************************)
\* The decodable files of a listing that carry id.
FilesWithId(fs, id) == { k \in DOMAIN fs : Decodes(fs[k]) /\ fs[k].doc.id = id }

\* The decodable files of a listing have pairwise distinct ids.
DistinctIds(fs) == \A id \in Ids : Cardinality(FilesWithId(fs, id)) <= 1

\* A row without the timestamps that were defaulted at import time, d being
\* the artifact it was imported from.
WithoutDefaults(row, d) ==
    [row EXCEPT !.started_at = IF d.started_at = NoTime THEN NoTime ELSE @,
                !.ended_at = IF d.ended_at = NoTime THEN NoTime ELSE @]

\* The contents of a table imported from the listing fs, whatever the order
\* of its rows and the values of defaulted timestamps.
Contents(tbl, fs) ==
    { WithoutDefaults(tbl[k],
          fs[CHOOSE j \in DOMAIN fs : j \in FilesWithId(fs, tbl[k].id)].doc) :
      k \in DOMAIN tbl }

\* The first call of ImportJSONResults returns with this step, and nothing
\* but that call has written to the table.
FirstCallReturns ==
    /\ pc[1] # "done" /\ pc'[1] = "done"
    /\ ops' = 0
    /\ \A j \in Importers \ {1} : pc'[j] = "idle"

\* The table after the call has the contents every other enumeration order
\* of the same files would have given.
SameForEveryOrder ==
    DistinctIds(files') =>
        \A q \in Enumerations(files') :
            Contents(ImportJSONResults(q, <<>>, now'), q) = Contents(runs', files')

\* The first of the files with this id that the store accepts, as a set: empty
\* if it accepts none.
FirstAccepted(fs, id) ==
    { k \in FilesWithId(fs, id) :
        /\ ~TypeError(fs[k].doc)
        /\ \A j \in FilesWithId(fs, id) : j < k => TypeError(fs[j].doc) }

\* C22 as stated: when the call returns, the table holds what any other
\* enumeration order of files with pairwise distinct ids would have given
\* (defaulted timestamps aside), and of two files with the same id exactly
\* one has been imported.
OrderIndependentExactlyOne ==
    [][FirstCallReturns =>
          /\ SameForEveryOrder
          /\ \A id \in Ids :
                Cardinality(FilesWithId(files', id)) >= 2 =>
                    Cardinality(RowsWithId(runs', id)) = 1]_vars

\* C22, amended: when the call returns, the table holds what any other
\* enumeration order of files with pairwise distinct ids would have given
\* (defaulted timestamps aside); of several files with the same id the one
\* imported is the first in enumeration order among those the store accepts,
\* and none is imported if the store accepts none.
OrderIndependent ==
    [][FirstCallReturns =>
          /\ SameForEveryOrder
          /\ \A id \in Ids :
                Cardinality(FilesWithId(files', id)) >= 2 =>
                    LET rows == RowsWithId(runs', id)
                        first == FirstAccepted(files', id)
                    IN IF first = {}
                       THEN rows = {}
                       ELSE /\ Cardinality(rows) = 1
                            /\ \A k \in rows, j \in first :
                                  WithoutDefaults(runs'[k], files'[j].doc) =
                                  WithoutDefaults(ImportRow(files'[j].doc, now'),
                                                  files'[j].doc)]_vars

\* The call has returned over two artifacts with different ids, listed with
\* the larger id first, and both are in the table.
OrderIndependentWitness ==
    /\ pc[1] = "done" /\ pc[2] = "idle" /\ ops = 0
    /\ Len(files) = 2 /\ Decodes(files[1]) /\ Decodes(files[2])
    /\ files[1].doc.id > files[2].doc.id
    /\ RowIds(runs) = {1, 2}
=============================================================================
